---- MODULE Spec2Model ----
(***************************************************************************)
(* A model of the limit order book and matching engine: the order pool     *)
(* (OrderPool), the intrusive price-level FIFO (PriceLevel), the two       *)
(* sorted side books and the engine (OrderBook::addLimitOrder,             *)
(* cancelOrder, matchBuy, matchSell).                                      *)
(*                                                                         *)
(* Pointers are slot numbers of the pool's storage (1..Capacity), NULL is  *)
(* 0.  A PriceLevel* is a position in bids_ / asks_.                       *)
(*                                                                         *)
(* uint32_t quantities are kept at their width: the model counts           *)
(* quantities in units of 2^(32-QtyBits), so that arithmetic modulo 2^32   *)
(* on such quantities is arithmetic modulo 2^QtyBits on the unit counts.   *)
(***************************************************************************)
EXTENDS Integers, Sequences, FiniteSets, TLC

\* ------------------------------------------------------------------ bounds
Capacity == 3          \* the capacity the OrderBook is constructed with
MaxPrice == 2          \* prices are 1..MaxPrice
MaxOrderId == 2        \* order ids are 1..MaxOrderId
MaxParticipant == 2    \* participant ids are 1..MaxParticipant
QtyBits == 2           \* bits of a uint32_t quantity counted in units
MaxSeq == 3            \* addLimitOrder is called at most MaxSeq times

LevelSlack == 2        \* the side books start LevelSlack levels short of full

\* ------------------------------------------------------- program constants
kDefaultMaxPriceLevels == 4096

NULL == 0
Buy == "Buy"
Sell == "Sell"

Slots == 1..Capacity
Prices == 1..MaxPrice
OrderIds == 1..MaxOrderId
Participants == 1..MaxParticipant
QtyMod == 2^QtyBits
\* the quantities submitted: zero, the unit, the maximum
Quantities == {0, 1, QtyMod - 1}

Min(a, b) == IF a < b THEN a ELSE b

VARIABLES
    orders,       \* OrderPool::orders_ : slot -> Order
    freeList,     \* OrderPool::freeList_
    freeCount,    \* OrderPool::freeCount_
    isAllocated,  \* OrderPool::isAllocated_
    bids,         \* OrderBook::bids_  (ascending, best at the back)
    asks,         \* OrderBook::asks_  (descending, best at the back)
    orderIndex,   \* OrderBook::orderIndex_ : orderId -> slot
    sequence_,    \* OrderBook::sequence_
    trades,       \* the Trades handed to onTrade_ by the last operation
    matchLog,     \* what the match loop read when it emitted each trade
    ledger,       \* per submitted order (by sequence): what became of it
    lastOp,       \* the last operation and its arguments
    aborted       \* an assertion of the program has failed

vars == <<orders, freeList, freeCount, isAllocated, bids, asks, orderIndex,
          sequence_, trades, matchLog, ledger, lastOp, aborted>>

\* ------------------------------------------------------------------- Order
\* A value-initialised Order (std::make_unique<Order[]>).
ZeroOrder ==
    [orderId |-> 0, price |-> 0, quantity |-> 0, sequence |-> 0,
     side |-> Buy, participantId |-> 0, next |-> NULL, prev |-> NULL]

init_zeroSeq(o, id, p, qty, seq, s, pid) ==
    [o EXCEPT !.orderId = id, !.price = p, !.quantity = qty,
              !.sequence = 0, !.side = s, !.participantId = pid]

\* Order::init
init(o, id, p, qty, seq, s, pid) ==
    [o EXCEPT !.orderId = id, !.price = p, !.quantity = qty,
              !.sequence = seq, !.side = s, !.participantId = pid]

\* --------------------------------------------------------------- OrderPool
\* OrderPool::OrderPool : the free list threads slot i to slot i+1.
OrderPoolOrders ==
    [i \in Slots |->
        [ZeroOrder EXCEPT !.next = IF i < Capacity THEN i + 1 ELSE NULL]]

allocate_keepHead(m) ==
    LET order == m.freeList IN
    IF order = NULL \/ m.freeCount = 0
    THEN [m EXCEPT !.aborted = TRUE]
    ELSE [m EXCEPT !.freeCount = @ - 1,
                   !.orders[order].next = NULL,
                   !.orders[order].prev = NULL,
                   !.isAllocated[order] = 1]

allocate_countFirst(m) ==
    LET order == m.freeList IN
    IF order = NULL \/ m.freeCount = 0
    THEN [m EXCEPT !.aborted = TRUE, !.sequence_ = @ + 1]
    ELSE [m EXCEPT !.freeList = m.orders[order].next,
                   !.freeCount = @ - 1,
                   !.orders[order].next = NULL,
                   !.orders[order].prev = NULL,
                   !.isAllocated[order] = 1]

\* OrderPool::allocate on the engine state m; the slot handed out is the
\* head of the free list before the call (Allocated(m)).
Allocated(m) == m.freeList

allocate(m) ==
    LET order == m.freeList IN
    IF order = NULL \/ m.freeCount = 0
    THEN [m EXCEPT !.aborted = TRUE]
    ELSE [m EXCEPT !.freeList = m.orders[order].next,
                   !.freeCount = @ - 1,
                   !.orders[order].next = NULL,
                   !.orders[order].prev = NULL,
                   !.isAllocated[order] = 1]

\* A release that loses the slot.
deallocate_drop(m, order) == m

\* A release that puts the slot behind the head of the free list.
deallocate_second(m, order) ==
    IF order = NULL \/ m.freeCount >= Capacity \/ m.isAllocated[order] # 1
    THEN [m EXCEPT !.aborted = TRUE]
    ELSE IF m.freeList = NULL
    THEN [m EXCEPT !.isAllocated[order] = 0,
                   !.orders[order].next = NULL,
                   !.freeList = order,
                   !.freeCount = @ + 1]
    ELSE [m EXCEPT !.isAllocated[order] = 0,
                   !.orders[order].next = m.orders[m.freeList].next,
                   !.orders[m.freeList].next = order,
                   !.freeCount = @ + 1]

\* OrderPool::deallocate
deallocate(m, order) ==
    IF order = NULL \/ m.freeCount >= Capacity \/ m.isAllocated[order] # 1
    THEN [m EXCEPT !.aborted = TRUE]
    ELSE [m EXCEPT !.isAllocated[order] = 0,
                   !.orders[order].next = m.freeList,
                   !.freeList = order,
                   !.freeCount = @ + 1]

\* The version of the pool without isAllocated_ (the second OrderPool of the
\* source): its constructor threads the free list from the last slot down,
\* and deallocate checks the free count only.
OrderPoolOrdersByCount ==
    [i \in Slots |-> [ZeroOrder EXCEPT !.next = IF i > 1 THEN i - 1 ELSE NULL]]

allocateByCount(m) ==
    LET order == m.freeList IN
    IF order = NULL \/ m.freeCount = 0
    THEN [m EXCEPT !.aborted = TRUE]
    ELSE [m EXCEPT !.freeList = m.orders[order].next,
                   !.freeCount = @ - 1,
                   !.orders[order].next = NULL,
                   !.orders[order].prev = NULL]

deallocateByCount(m, order) ==
    IF order = NULL \/ m.freeCount >= Capacity
    THEN [m EXCEPT !.aborted = TRUE]
    ELSE [m EXCEPT !.orders[order].next = m.freeList,
                   !.freeList = order,
                   !.freeCount = @ + 1]

\* -------------------------------------------------------------- PriceLevel
\* PriceLevel(price): a new, empty level.
NewPriceLevel(price) ==
    [price |-> price, totalQuantity |-> 0, head |-> NULL, tail |-> NULL]

\* PriceLevel::isEmpty
isEmpty(pl) == pl.head = NULL

\* PriceLevel::front
front(pl) == pl.head

\* The methods of a PriceLevel change the level and the orders it links: they
\* take and return the pair [pl, orders].
addToHead(pl, ords, o) ==
    LET o1 == [ords EXCEPT ![o].prev = NULL, ![o].next = pl.head] IN
    [pl |-> [pl EXCEPT !.head = o,
                       !.tail = IF pl.head = NULL THEN o ELSE @,
                       !.totalQuantity = (@ + ords[o].quantity) % QtyMod],
     orders |-> IF pl.head = NULL THEN o1
                ELSE [o1 EXCEPT ![pl.head].prev = o]]

\* PriceLevel::addToTail
addToTail(pl, ords, o) ==
    LET o1 == [ords EXCEPT ![o].next = NULL, ![o].prev = pl.tail] IN
    [pl |-> [pl EXCEPT !.head = IF isEmpty(pl) THEN o ELSE @,
                       !.tail = o,
                       !.totalQuantity = (@ + ords[o].quantity) % QtyMod],
     orders |-> IF isEmpty(pl) THEN o1
                ELSE [o1 EXCEPT ![pl.tail].next = o]]

remove_noTail(pl, ords, o) ==
    LET p == ords[o].prev
        n == ords[o].next
        o1 == IF p # NULL THEN [ords EXCEPT ![p].next = n] ELSE ords
        o2 == IF n # NULL THEN [o1 EXCEPT ![n].prev = p] ELSE o1
    IN
    [pl |-> [pl EXCEPT !.head = IF p # NULL THEN @ ELSE n,
                       !.totalQuantity = (@ - ords[o].quantity) % QtyMod],
     orders |-> [o2 EXCEPT ![o].next = NULL, ![o].prev = NULL]]

\* PriceLevel::remove
remove(pl, ords, o) ==
    LET p == ords[o].prev
        n == ords[o].next
        o1 == IF p # NULL THEN [ords EXCEPT ![p].next = n] ELSE ords
        o2 == IF n # NULL THEN [o1 EXCEPT ![n].prev = p] ELSE o1
    IN
    [pl |-> [pl EXCEPT !.head = IF p # NULL THEN @ ELSE n,
                       !.tail = IF n # NULL THEN @ ELSE p,
                       !.totalQuantity = (@ - ords[o].quantity) % QtyMod],
     orders |-> [o2 EXCEPT ![o].next = NULL, ![o].prev = NULL]]

\* --------------------------------------------------------------- side books
\* The lambda of findBidLevel: bids_ is ascending.
bidBefore(plPrice, p) == plPrice < p

askBefore_ascending(plPrice, p) == plPrice < p

\* The lambda of findAskLevel: asks_ is descending.
askBefore(plPrice, p) == plPrice > p

\* std::lower_bound over positions first .. first+len-1 of bids_: the binary
\* search for the first level that is not before price; Len+1 is end().
RECURSIVE bidLowerBound(_, _, _, _)
bidLowerBound(levels, first, len, price) ==
    IF len = 0 THEN first
    ELSE LET half == len \div 2
             mid == first + half
         IN IF bidBefore(levels[mid].price, price)
            THEN bidLowerBound(levels, mid + 1, len - half - 1, price)
            ELSE bidLowerBound(levels, first, half, price)

RECURSIVE askLowerBound(_, _, _, _)
askLowerBound(levels, first, len, price) ==
    IF len = 0 THEN first
    ELSE LET half == len \div 2
             mid == first + half
         IN IF askBefore(levels[mid].price, price)
            THEN askLowerBound(levels, mid + 1, len - half - 1, price)
            ELSE askLowerBound(levels, first, half, price)

\* OrderBook::findBidLevel / findAskLevel : a position of the vector.
findBidLevel(m, price) == bidLowerBound(m.bids, 1, Len(m.bids), price)

findAskLevel(m, price) == askLowerBound(m.asks, 1, Len(m.asks), price)

\* std::vector::insert(it, x) / erase(it) / pop_back()
InsertAt(levels, it, x) ==
    SubSeq(levels, 1, it - 1) \o <<x>> \o SubSeq(levels, it, Len(levels))

EraseAt_keep(levels, it) == levels

EraseAt(levels, it) ==
    SubSeq(levels, 1, it - 1) \o SubSeq(levels, it + 1, Len(levels))

PopBack(levels) == SubSeq(levels, 1, Len(levels) - 1)

findOrCreateBidLevel_pushBack(m, price) ==
    LET it == findBidLevel(m, price) IN
    IF it # Len(m.bids) + 1 /\ m.bids[it].price = price THEN m
    ELSE [m EXCEPT !.bids = Append(@, NewPriceLevel(price))]

findOrCreateBidLevel_grow(m, price) ==
    LET it == findBidLevel(m, price) IN
    IF it # Len(m.bids) + 1 /\ m.bids[it].price = price THEN m
    ELSE [m EXCEPT !.bids = InsertAt(@, it, NewPriceLevel(price))]

\* OrderBook::findOrCreateBidLevel : the level it returns is at position
\* findBidLevel(m, price) of the resulting bids_.
findOrCreateBidLevel(m, price) ==
    LET it == findBidLevel(m, price) IN
    IF it # Len(m.bids) + 1 /\ m.bids[it].price = price THEN m
    ELSE IF ~(Len(m.bids) < kDefaultMaxPriceLevels)
         THEN [m EXCEPT !.aborted = TRUE]
         ELSE [m EXCEPT !.bids = InsertAt(@, it, NewPriceLevel(price))]

\* OrderBook::findOrCreateAskLevel
findOrCreateAskLevel(m, price) ==
    LET it == findAskLevel(m, price) IN
    IF it # Len(m.asks) + 1 /\ m.asks[it].price = price THEN m
    ELSE IF ~(Len(m.asks) < kDefaultMaxPriceLevels)
         THEN [m EXCEPT !.aborted = TRUE]
         ELSE [m EXCEPT !.asks = InsertAt(@, it, NewPriceLevel(price))]

bestBid_front(m) == IF Len(m.bids) = 0 THEN NULL ELSE 1

\* OrderBook::bestBid / bestAsk : the position of the back level, or NULL.
bestBid(m) == IF Len(m.bids) = 0 THEN NULL ELSE Len(m.bids)

bestAsk(m) == IF Len(m.asks) = 0 THEN NULL ELSE Len(m.asks)

\* The slots linked into a level, head first (at most Capacity links are
\* followed, so that the walk ends on any link structure).
RECURSIVE Walk(_, _, _)
Walk(ords, o, fuel) ==
    IF o = NULL \/ fuel = 0 THEN <<>>
    ELSE <<o>> \o Walk(ords, ords[o].next, fuel - 1)

Fifo(ords, pl) == Walk(ords, pl.head, Capacity)

Range(f) == {f[i] : i \in DOMAIN f}

\* The slots linked into any level of a side book.
LinkedIn(ords, levels) ==
    UNION {Range(Fifo(ords, levels[i])) : i \in 1..Len(levels)}

\* ------------------------------------------------------------ the match loop
\* std::unordered_map::try_emplace / erase(key)
try_emplace(index, id, order) ==
    IF id \in DOMAIN index THEN index
    ELSE [i \in DOMAIN index \cup {id} |-> IF i = id THEN order ELSE index[i]]

\* An erase that leaves the entry in place.
indexErase_keep(index, id) == index

indexErase(index, id) == [i \in DOMAIN index \ {id} |-> index[i]]

\* The loop's exit tests on the price of the best opposite level.
buyStops_offByOne(incoming, pl) == incoming.price <= pl.price

buyStops(incoming, pl) == incoming.price < pl.price

\* A sell that never stops at a level's price.
sellStops_never(incoming, pl) == FALSE

sellStops(incoming, pl) == incoming.price > pl.price

\* The self-match test.
SelfMatch_never(resting, incoming) == FALSE

SelfMatch_sameId(resting, incoming) == resting.orderId = incoming.orderId

SelfMatch(resting, incoming) == resting.participantId = incoming.participantId

FillQty_incoming(incoming, resting) == incoming.quantity

FillQty_unit(incoming, resting) == 1

\* fillQty
FillQty(incoming, resting) == Min(incoming.quantity, resting.quantity)

BuyTrade_atLimit(incoming, resting, pl, fillQty) ==
    [buyOrderId |-> incoming.orderId, sellOrderId |-> resting.orderId,
     price |-> incoming.price, quantity |-> fillQty]

BuyTrade_swapped(incoming, resting, pl, fillQty) ==
    [buyOrderId |-> resting.orderId, sellOrderId |-> incoming.orderId,
     price |-> pl.price, quantity |-> fillQty]

\* The Trade an incoming buy emits / an incoming sell emits.
BuyTrade(incoming, resting, pl, fillQty) ==
    [buyOrderId |-> incoming.orderId, sellOrderId |-> resting.orderId,
     price |-> pl.price, quantity |-> fillQty]

SellTrade_remaining(incoming, resting, pl, fillQty) ==
    [buyOrderId |-> resting.orderId, sellOrderId |-> incoming.orderId,
     price |-> pl.price, quantity |-> incoming.quantity]

SellTrade(incoming, resting, pl, fillQty) ==
    [buyOrderId |-> resting.orderId, sellOrderId |-> incoming.orderId,
     price |-> pl.price, quantity |-> fillQty]

\* What the engine holds when onTrade_ is called for a fill of the order in
\* slot resting (the head of level pl of the side book levels) by the order
\* in slot incoming; ords are the orders before the fill is applied.
Observe(ords, levels, pl, incoming, resting) ==
    [incoming |-> incoming,
     resting |-> resting,
     incomingSide |-> ords[incoming].side,
     incomingSeq |-> ords[incoming].sequence,
     restingSeq |-> ords[resting].sequence,
     incomingPid |-> ords[incoming].participantId,
     restingPid |-> ords[resting].participantId,
     incomingPrice |-> ords[incoming].price,
     restingPrice |-> ords[resting].price,
     incomingQty |-> ords[incoming].quantity,
     restingQty |-> ords[resting].quantity,
     levelSeqs |-> {ords[o].sequence : o \in Range(Fifo(ords, levels[pl]))},
     oppositePrices |-> {ords[o].price : o \in LinkedIn(ords, levels)}]

onTrade_prepend(m, trade, seen) ==
    [m EXCEPT !.trades = <<trade>> \o @, !.matchLog = <<seen>> \o @]

\* onTrade_(trade): the sink keeps the trades in the order of the calls.
onTrade(m, trade, seen) ==
    [m EXCEPT !.trades = Append(@, trade), !.matchLog = Append(@, seen)]

releaseFilledAsk_leak(m, pl, resting) ==
    LET r == remove(m.asks[pl], m.orders, resting)
        m1 == [m EXCEPT !.asks[pl] = r.pl, !.orders = r.orders]
    IN [m1 EXCEPT !.orderIndex = indexErase(@, m1.orders[resting].orderId)]

\* A resting order filled to zero is unlinked, un-indexed and released.
releaseFilledAsk(m, pl, resting) ==
    LET r == remove(m.asks[pl], m.orders, resting)
        m1 == [m EXCEPT !.asks[pl] = r.pl, !.orders = r.orders]
        m2 == [m1 EXCEPT !.orderIndex = indexErase(@, m1.orders[resting].orderId)]
    IN deallocate(m2, resting)

releaseFilledBid(m, pl, resting) ==
    LET r == remove(m.bids[pl], m.orders, resting)
        m1 == [m EXCEPT !.bids[pl] = r.pl, !.orders = r.orders]
        m2 == [m1 EXCEPT !.orderIndex = indexErase(@, m1.orders[resting].orderId)]
    IN deallocate(m2, resting)

\* OrderBook::matchBuy
RECURSIVE matchBuy(_, _)
matchBuy(m, incoming) ==
    IF ~(m.orders[incoming].quantity > 0 /\ Len(m.asks) # 0) THEN m
    ELSE
    LET pl == Len(m.asks) IN
    IF buyStops(m.orders[incoming], m.asks[pl]) THEN m
    ELSE
    LET resting == front(m.asks[pl]) IN
    IF SelfMatch(m.orders[resting], m.orders[incoming])
    THEN [m EXCEPT !.orders[incoming].quantity = 0,
                   !.discarded = m.orders[incoming].quantity]
    ELSE
    LET fillQty == FillQty(m.orders[incoming], m.orders[resting])
        m1 == [m EXCEPT
                 !.orders[incoming].quantity = (@ - fillQty) % QtyMod,
                 !.orders[resting].quantity = (@ - fillQty) % QtyMod,
                 !.asks[pl].totalQuantity = (@ - fillQty) % QtyMod]
        trade == BuyTrade(m1.orders[incoming], m1.orders[resting],
                          m1.asks[pl], fillQty)
        m2 == onTrade(m1, trade,
                      Observe(m.orders, m.asks, pl, incoming, resting))
        m3 == IF m2.orders[resting].quantity = 0
              THEN releaseFilledAsk(m2, pl, resting) ELSE m2
        m4 == IF isEmpty(m3.asks[pl])
              THEN [m3 EXCEPT !.asks = PopBack(@)] ELSE m3
    IN matchBuy(m4, incoming)

\* OrderBook::matchSell
RECURSIVE matchSell(_, _)
matchSell(m, incoming) ==
    IF ~(m.orders[incoming].quantity > 0 /\ Len(m.bids) # 0) THEN m
    ELSE
    LET pl == Len(m.bids) IN
    IF sellStops(m.orders[incoming], m.bids[pl]) THEN m
    ELSE
    LET resting == front(m.bids[pl]) IN
    IF SelfMatch(m.orders[resting], m.orders[incoming])
    THEN [m EXCEPT !.orders[incoming].quantity = 0,
                   !.discarded = m.orders[incoming].quantity]
    ELSE
    LET fillQty == FillQty(m.orders[incoming], m.orders[resting])
        m1 == [m EXCEPT
                 !.orders[incoming].quantity = (@ - fillQty) % QtyMod,
                 !.orders[resting].quantity = (@ - fillQty) % QtyMod,
                 !.bids[pl].totalQuantity = (@ - fillQty) % QtyMod]
        trade == SellTrade(m1.orders[incoming], m1.orders[resting],
                           m1.bids[pl], fillQty)
        m2 == onTrade(m1, trade,
                      Observe(m.orders, m.bids, pl, incoming, resting))
        m3 == IF m2.orders[resting].quantity = 0
              THEN releaseFilledBid(m2, pl, resting) ELSE m2
        m4 == IF isEmpty(m3.bids[pl])
              THEN [m3 EXCEPT !.bids = PopBack(@)] ELSE m3
    IN matchSell(m4, incoming)

\* ------------------------------- the match loops with one resize at the end
\* std::vector::resize to a smaller size, and a resize that drops nothing.
resize_keep(levels, numLevels) == levels

resize(levels, numLevels) == SubSeq(levels, 1, numLevels)

\* The loop of the matchBuy that walks the cached level pointer pl down from
\* the back of asks_; pl is the level numLevels throughout, and the emptied
\* levels above it stay in the vector until the resize at the exit.
RECURSIVE matchBuyBatchLoop(_, _, _)
matchBuyBatchLoop(m, incoming, numLevels) ==
    IF ~(m.orders[incoming].quantity > 0 /\ numLevels > 0)
    THEN [m EXCEPT !.asks = resize(@, numLevels)]
    ELSE
    LET pl == numLevels IN
    IF buyStops(m.orders[incoming], m.asks[pl])
    THEN [m EXCEPT !.asks = resize(@, numLevels)]
    ELSE
    LET resting == m.asks[pl].head IN
    IF SelfMatch(m.orders[resting], m.orders[incoming])
    THEN [m EXCEPT !.orders[incoming].quantity = 0,
                   !.discarded = m.orders[incoming].quantity,
                   !.asks = resize(@, numLevels)]
    ELSE
    LET fillQty == FillQty(m.orders[incoming], m.orders[resting])
        m1 == [m EXCEPT
                 !.orders[incoming].quantity = (@ - fillQty) % QtyMod,
                 !.orders[resting].quantity = (@ - fillQty) % QtyMod,
                 !.asks[pl].totalQuantity = (@ - fillQty) % QtyMod]
        trade == BuyTrade(m1.orders[incoming], m1.orders[resting],
                          m1.asks[pl], fillQty)
        m2 == onTrade(m1, trade,
                      Observe(m.orders, resize(m.asks, numLevels), pl,
                              incoming, resting))
        m3 == IF m2.orders[resting].quantity = 0
              THEN releaseFilledAsk(m2, pl, resting) ELSE m2
    IN IF m3.asks[pl].head = NULL
       THEN matchBuyBatchLoop(m3, incoming, numLevels - 1)
       ELSE matchBuyBatchLoop(m3, incoming, numLevels)

\* OrderBook::matchBuy, batch-resize variant
matchBuyBatch(m, incoming) ==
    IF Len(m.asks) = 0 THEN m
    ELSE matchBuyBatchLoop(m, incoming, Len(m.asks))

RECURSIVE matchSellBatchLoop(_, _, _)
matchSellBatchLoop(m, incoming, numLevels) ==
    IF ~(m.orders[incoming].quantity > 0 /\ numLevels > 0)
    THEN [m EXCEPT !.bids = resize(@, numLevels)]
    ELSE
    LET pl == numLevels IN
    IF sellStops(m.orders[incoming], m.bids[pl])
    THEN [m EXCEPT !.bids = resize(@, numLevels)]
    ELSE
    LET resting == m.bids[pl].head IN
    IF SelfMatch(m.orders[resting], m.orders[incoming])
    THEN [m EXCEPT !.orders[incoming].quantity = 0,
                   !.discarded = m.orders[incoming].quantity,
                   !.bids = resize(@, numLevels)]
    ELSE
    LET fillQty == FillQty(m.orders[incoming], m.orders[resting])
        m1 == [m EXCEPT
                 !.orders[incoming].quantity = (@ - fillQty) % QtyMod,
                 !.orders[resting].quantity = (@ - fillQty) % QtyMod,
                 !.bids[pl].totalQuantity = (@ - fillQty) % QtyMod]
        trade == SellTrade(m1.orders[incoming], m1.orders[resting],
                           m1.bids[pl], fillQty)
        m2 == onTrade(m1, trade,
                      Observe(m.orders, resize(m.bids, numLevels), pl,
                              incoming, resting))
        m3 == IF m2.orders[resting].quantity = 0
              THEN releaseFilledBid(m2, pl, resting) ELSE m2
    IN IF m3.bids[pl].head = NULL
       THEN matchSellBatchLoop(m3, incoming, numLevels - 1)
       ELSE matchSellBatchLoop(m3, incoming, numLevels)

\* OrderBook::matchSell, batch-resize variant
matchSellBatch(m, incoming) ==
    IF Len(m.bids) = 0 THEN m
    ELSE matchSellBatchLoop(m, incoming, Len(m.bids))

\* ------------------------------------------------------ the public operations
\* The remainder of an incoming buy / sell is linked at the tail of the level
\* at its limit price and indexed under its id.
restBuy(m, order, price, id) ==
    LET m1 == findOrCreateBidLevel(m, price)
        pl == findBidLevel(m, price)
    IN IF m1.aborted THEN m1
       ELSE LET r == addToTail(m1.bids[pl], m1.orders, order) IN
            [m1 EXCEPT !.bids[pl] = r.pl, !.orders = r.orders,
                       !.orderIndex = try_emplace(@, id, order)]

\* A sell remainder that rests without an index entry.
restSell_noIndex(m, order, price, id) ==
    LET m1 == findOrCreateAskLevel(m, price)
        pl == findAskLevel(m, price)
    IN IF m1.aborted THEN m1
       ELSE LET r == addToTail(m1.asks[pl], m1.orders, order) IN
            [m1 EXCEPT !.asks[pl] = r.pl, !.orders = r.orders]

restSell(m, order, price, id) ==
    LET m1 == findOrCreateAskLevel(m, price)
        pl == findAskLevel(m, price)
    IN IF m1.aborted THEN m1
       ELSE LET r == addToTail(m1.asks[pl], m1.orders, order) IN
            [m1 EXCEPT !.asks[pl] = r.pl, !.orders = r.orders,
                       !.orderIndex = try_emplace(@, id, order)]

\* OrderBook::addLimitOrder
addLimitOrder(m, side, price, quantity, id, participantId) ==
    LET order == Allocated(m)
        m0 == allocate(m)
    IN
    IF m0.aborted THEN m0
    ELSE
    LET m1 == [m0 EXCEPT
                 !.orders[order] = init(@, id, price, quantity, m0.sequence_,
                                        side, participantId),
                 !.sequence_ = @ + 1]
        m2 == IF side = Buy
              THEN IF bestAsk(m1) # NULL /\ price >= m1.asks[bestAsk(m1)].price
                   THEN matchBuy(m1, order) ELSE m1
              ELSE IF bestBid(m1) # NULL /\ price <= m1.bids[bestBid(m1)].price
                   THEN matchSell(m1, order) ELSE m1
    IN
    IF m2.orders[order].quantity > 0
    THEN IF side = Buy THEN restBuy(m2, order, price, id)
                       ELSE restSell(m2, order, price, id)
    ELSE deallocate(m2, order)

\* OrderBook::cancelOrder
cancelUnknown_abort(m, orderId) == [m EXCEPT !.aborted = TRUE]

\* OrderBook::cancelOrder, id not in the index: return silently
cancelUnknown(m, orderId) == m

cancelOrder(m, orderId) ==
    IF orderId \notin DOMAIN m.orderIndex THEN cancelUnknown(m, orderId)
    ELSE
    LET o == m.orderIndex[orderId] IN
    IF ~(o # NULL /\ m.orders[o].quantity > 0) THEN [m EXCEPT !.aborted = TRUE]
    ELSE
    LET isBuy == m.orders[o].side = Buy
        levels == IF isBuy THEN m.bids ELSE m.asks
        levelIt == IF isBuy THEN findBidLevel(m, m.orders[o].price)
                            ELSE findAskLevel(m, m.orders[o].price)
    IN
    IF ~(levelIt # Len(levels) + 1 /\ levels[levelIt].price = m.orders[o].price)
    THEN [m EXCEPT !.aborted = TRUE]
    ELSE
    LET r == remove(levels[levelIt], m.orders, o)
        levels1 == [levels EXCEPT ![levelIt] = r.pl]
        levels2 == IF isEmpty(levels1[levelIt]) THEN EraseAt(levels1, levelIt)
                   ELSE levels1
        m1 == [m EXCEPT !.orders = r.orders,
                        !.bids = IF isBuy THEN levels2 ELSE @,
                        !.asks = IF isBuy THEN @ ELSE levels2,
                        !.orderIndex = indexErase(@, orderId),
                        !.discarded = m.orders[o].quantity,
                        !.cancelled = m.orders[o].sequence]
    IN deallocate(m1, o)

\* ------------------------------------------------------------ the state machine
\* The engine as the operations see it; trades, matchLog, discarded and
\* cancelled start empty for each operation.
Self ==
    [orders |-> orders, freeList |-> freeList, freeCount |-> freeCount,
     isAllocated |-> isAllocated, bids |-> bids, asks |-> asks,
     orderIndex |-> orderIndex, sequence_ |-> sequence_,
     trades |-> <<>>, matchLog |-> <<>>, discarded |-> 0, cancelled |-> -1,
     aborted |-> FALSE]

NoOrders == [i \in {} |-> NULL]

\* The sum of the quantities of the trades of log that name the order with
\* sequence seq as their incoming or resting order.
RECURSIVE FilledIn(_, _, _)
FilledIn(tr, log, seq) ==
    IF tr = <<>> THEN 0
    ELSE (IF Head(log).incomingSeq = seq \/ Head(log).restingSeq = seq
          THEN Head(tr).quantity ELSE 0)
         + FilledIn(Tail(tr), Tail(log), seq)

\* The ledger after an operation: entry seq+1 is the order with sequence seq.
Booked(old, m) ==
    [s \in DOMAIN old |->
        [old[s] EXCEPT
            !.filled = @ + FilledIn(m.trades, m.matchLog, s - 1),
            !.discarded = @ + IF m.cancelled = s - 1 THEN m.discarded ELSE 0]]

Commit(m, op) ==
    /\ orders' = m.orders
    /\ freeList' = m.freeList
    /\ freeCount' = m.freeCount
    /\ isAllocated' = m.isAllocated
    /\ bids' = m.bids
    /\ asks' = m.asks
    /\ orderIndex' = m.orderIndex
    /\ sequence_' = m.sequence_
    /\ trades' = m.trades
    /\ matchLog' = m.matchLog
    /\ lastOp' = op
    /\ aborted' = FALSE

\* A failed assertion ends the program; nothing of the operation is kept.
Abort(op) ==
    /\ aborted' = TRUE
    /\ lastOp' = op
    /\ UNCHANGED <<orders, freeList, freeCount, isAllocated, bids, asks,
                   orderIndex, sequence_, trades, matchLog, ledger>>

Init ==
    /\ orders = OrderPoolOrders
    /\ freeList = 1
    /\ freeCount = Capacity
    /\ isAllocated = [i \in Slots |-> 0]
    /\ bids = <<>>
    /\ asks = <<>>
    /\ orderIndex = NoOrders
    /\ sequence_ = 0
    /\ trades = <<>>
    /\ matchLog = <<>>
    /\ ledger = <<>>
    /\ lastOp = [op |-> "none"]
    /\ aborted = FALSE

AddLimitOrder ==
    /\ ~aborted
    /\ sequence_ < MaxSeq
    /\ \E side \in {Buy, Sell}, price \in Prices, quantity \in Quantities,
          id \in OrderIds, participantId \in Participants :
          LET m == addLimitOrder(Self, side, price, quantity, id, participantId)
              op == [op |-> "add", side |-> side, price |-> price,
                     quantity |-> quantity, id |-> id,
                     participantId |-> participantId]
          IN IF m.aborted THEN Abort(op)
             ELSE /\ Commit(m, op)
                  /\ ledger' = Booked(Append(ledger,
                                   [initial |-> quantity, filled |-> 0,
                                    discarded |-> m.discarded]), m)

CancelOrder ==
    /\ ~aborted
    /\ \E orderId \in OrderIds :
          LET m == cancelOrder(Self, orderId)
              op == [op |-> "cancel", id |-> orderId]
          IN IF m.aborted THEN Abort(op)
             ELSE /\ Commit(m, op)
                  /\ ledger' = Booked(ledger, m)

Next == AddLimitOrder \/ CancelOrder

Spec == Init /\ [][Next]_vars

\* ------------------------------------------- the engine with a full arena
\* addLimitOrder called by a client that numbers its orders 1, 2, ... and
\* goes on submitting when every slot of the arena holds a resting order.
AddLimitOrderWhenFull ==
    /\ ~aborted
    /\ sequence_ < MaxSeq \/ freeCount = 0
    /\ \E side \in {Buy, Sell}, price \in Prices, quantity \in Quantities,
          participantId \in Participants :
          LET id == sequence_ + 1
              m == addLimitOrder(Self, side, price, quantity, id, participantId)
              op == [op |-> "add", side |-> side, price |-> price,
                     quantity |-> quantity, id |-> id,
                     participantId |-> participantId]
          IN IF m.aborted THEN Abort(op)
             ELSE /\ Commit(m, op)
                  /\ ledger' = Booked(Append(ledger,
                                   [initial |-> quantity, filled |-> 0,
                                    discarded |-> m.discarded]), m)

NextWhenFull == AddLimitOrderWhenFull \/ CancelOrder

SpecWhenFull == Init /\ [][NextWhenFull]_vars

\* ------------------------------------- the side books near their capacity
\* findOrCreateBidLevel / findOrCreateAskLevel read and change the vector of
\* levels only, and of a level only its price.  They are applied to side
\* books that hold the even prices and are LevelSlack levels short of the
\* capacity reserved by the constructor; a level is as findOrCreate makes it.
StartLevels == kDefaultMaxPriceLevels - LevelSlack

\* an existing price, new prices near the front and a new price at the end
LevelPrices == {2, 1, 3, 5, 2 * kDefaultMaxPriceLevels + 1}

InitSideBooks ==
    /\ orders = OrderPoolOrders
    /\ freeList = 1
    /\ freeCount = Capacity
    /\ isAllocated = [i \in Slots |-> 0]
    /\ bids = [i \in 1..StartLevels |-> NewPriceLevel(2 * i)]
    /\ asks = [i \in 1..StartLevels |->
                  NewPriceLevel(2 * (StartLevels - i + 1))]
    /\ orderIndex = NoOrders
    /\ sequence_ = 0
    /\ trades = <<>>
    /\ matchLog = <<>>
    /\ ledger = <<>>
    /\ lastOp = [op |-> "none"]
    /\ aborted = FALSE

FindOrCreateBidLevel ==
    /\ ~aborted
    /\ \E price \in LevelPrices :
          LET m == findOrCreateBidLevel(Self, price)
              op == [op |-> "findOrCreate", side |-> Buy, price |-> price]
          IN IF m.aborted THEN Abort(op)
             ELSE Commit(m, op) /\ UNCHANGED ledger

FindOrCreateAskLevel ==
    /\ ~aborted
    /\ \E price \in LevelPrices :
          LET m == findOrCreateAskLevel(Self, price)
              op == [op |-> "findOrCreate", side |-> Sell, price |-> price]
          IN IF m.aborted THEN Abort(op)
             ELSE Commit(m, op) /\ UNCHANGED ledger

NextSideBooks == FindOrCreateBidLevel \/ FindOrCreateAskLevel

SpecSideBooks == InitSideBooks /\ [][NextSideBooks]_vars

\* ------------------------------------------------ the pool used on its own
\* A caller of the pool: allocate and initialise the order, or deallocate any
\* handle, null and already released ones included.
PoolAllocate ==
    /\ ~aborted
    /\ \E id \in OrderIds, price \in Prices :
          LET order == Allocated(Self)
              m == allocate(Self)
              op == [op |-> "allocate"]
          IN IF m.aborted THEN Abort(op)
             ELSE /\ Commit([m EXCEPT !.orders[order] =
                                init(@, id, price, 1, 0, Buy, 1)], op)
                  /\ UNCHANGED ledger

PoolDeallocate ==
    /\ ~aborted
    /\ \E order \in {NULL} \cup Slots :
          LET m == deallocate(Self, order)
              op == [op |-> "deallocate", order |-> order]
          IN IF m.aborted THEN Abort(op)
             ELSE Commit(m, op) /\ UNCHANGED ledger

PoolNext == PoolAllocate \/ PoolDeallocate

PoolSpec == Init /\ [][PoolNext]_vars

\* The same caller on the pool without isAllocated_.
InitByCount ==
    /\ orders = OrderPoolOrdersByCount
    /\ freeList = Capacity
    /\ freeCount = Capacity
    /\ isAllocated = [i \in Slots |-> 0]
    /\ bids = <<>>
    /\ asks = <<>>
    /\ orderIndex = NoOrders
    /\ sequence_ = 0
    /\ trades = <<>>
    /\ matchLog = <<>>
    /\ ledger = <<>>
    /\ lastOp = [op |-> "none"]
    /\ aborted = FALSE

PoolAllocateByCount ==
    /\ ~aborted
    /\ \E id \in OrderIds, price \in Prices :
          LET order == Allocated(Self)
              m == allocateByCount(Self)
              op == [op |-> "allocate"]
          IN IF m.aborted THEN Abort(op)
             ELSE /\ Commit([m EXCEPT !.orders[order] =
                                init(@, id, price, 1, 0, Buy, 1)], op)
                  /\ UNCHANGED ledger

PoolDeallocateByCount ==
    /\ ~aborted
    /\ \E order \in {NULL} \cup Slots :
          LET m == deallocateByCount(Self, order)
              op == [op |-> "deallocate", order |-> order]
          IN IF m.aborted THEN Abort(op)
             ELSE Commit(m, op) /\ UNCHANGED ledger

PoolNextByCount == PoolAllocateByCount \/ PoolDeallocateByCount

PoolSpecByCount == InitByCount /\ [][PoolNextByCount]_vars

\* ------------------------------------------------------------- the properties
\* The orders linked into the book, and what the ledger needs of them.
Linked == LinkedIn(orders, bids) \cup LinkedIn(orders, asks)

RestingQty(seq) ==
    LET S == {o \in Linked : orders[o].sequence = seq} IN
    IF S = {} THEN 0 ELSE orders[CHOOSE o \in S : TRUE].quantity

RECURSIVE SumQty(_, _)
SumQty(ords, fifo) ==
    IF fifo = <<>> THEN 0
    ELSE ords[Head(fifo)].quantity + SumQty(ords, Tail(fifo))

RECURSIVE SumLen(_, _)
SumLen(ords, levels) ==
    IF levels = <<>> THEN 0
    ELSE Len(Fifo(ords, Head(levels))) + SumLen(ords, Tail(levels))

Increasing(ords, fifo) ==
    \A i, j \in DOMAIN fifo :
        i < j => ords[fifo[i]].sequence < ords[fifo[j]].sequence

\* C1: after every operation, if both sides hold resting orders, the best
\* bid's price is strictly less than the best ask's price.
C1_Uncrossed ==
    (bestBid(Self) # NULL /\ bestAsk(Self) # NULL)
        => bids[bestBid(Self)].price < asks[bestAsk(Self)].price

\* an add traded and left orders resting on both sides
C1_Witness ==
    /\ lastOp.op = "add"
    /\ trades # <<>>
    /\ bids # <<>>
    /\ asks # <<>>

\* C2: in every trade handed to the sink the buy order and the sell order
\* belong to different participants.
C2_NoSelfTrade ==
    \A k \in DOMAIN matchLog :
        matchLog[k].incomingPid # matchLog[k].restingPid

\* an add traded and then met an order of its own participant
C2_Witness ==
    /\ lastOp.op = "add"
    /\ trades # <<>>
    /\ ledger[Len(ledger)].discarded > 0

\* C3: a fill goes to the earliest-added order resting at its level, and every
\* level holds its orders in the order they were added (a remainder that rests
\* is behind all earlier orders at its price).
C3_TimePriority ==
    /\ \A k \in DOMAIN matchLog :
          \A s \in matchLog[k].levelSeqs : matchLog[k].restingSeq <= s
    /\ \A i \in DOMAIN bids : Increasing(orders, Fifo(orders, bids[i]))
    /\ \A i \in DOMAIN asks : Increasing(orders, Fifo(orders, asks[i]))

\* an order was filled while a later order rested behind it at its level
C3_Witness ==
    \E k \in DOMAIN matchLog : Cardinality(matchLog[k].levelSeqs) >= 2

\* C4: a fill goes to an order at the best price resting on the opposite side,
\* and the trade prices of one add are non-decreasing for an incoming buy and
\* non-increasing for an incoming sell.
C4_PricePriority ==
    /\ \A k \in DOMAIN matchLog :
          \A p \in matchLog[k].oppositePrices :
              IF matchLog[k].incomingSide = Buy
              THEN matchLog[k].restingPrice <= p
              ELSE matchLog[k].restingPrice >= p
    /\ \A j, k \in DOMAIN trades :
          j < k => IF matchLog[k].incomingSide = Buy
                   THEN trades[j].price <= trades[k].price
                   ELSE trades[j].price >= trades[k].price

\* one add swept two price levels
C4_Witness ==
    \E j, k \in DOMAIN trades : trades[j].price # trades[k].price

\* C5: every trade's price is the price of the resting order it fills.
C5_TradeAtRestingPrice ==
    \A k \in DOMAIN trades : trades[k].price = matchLog[k].restingPrice

\* a trade at a price that is not the incoming order's limit
C5_Witness ==
    \E k \in DOMAIN trades :
        matchLog[k].incomingPrice # matchLog[k].restingPrice

\* C6: for every order submitted, its initial quantity is the sum of its
\* fills, its resting quantity and the residual discarded by self-match
\* cancellation or by cancelOrder.
C6_Conservation ==
    \A s \in DOMAIN ledger :
        ledger[s].initial =
            ledger[s].filled + RestingQty(s - 1) + ledger[s].discarded

\* an order was partly filled and its residual was discarded
C6_Witness ==
    \E s \in DOMAIN ledger : ledger[s].filled > 0 /\ ledger[s].discarded > 0

\* C7: the orders the index reaches are the orders linked into the levels,
\* index[id].orderId = id, and every indexed order has quantity > 0 and is
\* linked into exactly one level.
C7_IndexIsFifos ==
    /\ Range(orderIndex) = Linked
    /\ \A id \in DOMAIN orderIndex :
          /\ orders[orderIndex[id]].orderId = id
          /\ orders[orderIndex[id]].quantity > 0
          /\ Cardinality(
               {<<"bid", i>> : i \in {j \in DOMAIN bids :
                    orderIndex[id] \in Range(Fifo(orders, bids[j]))}}
               \cup
               {<<"ask", i>> : i \in {j \in DOMAIN asks :
                    orderIndex[id] \in Range(Fifo(orders, asks[j]))}}) = 1

\* C8: every stored level's totalQuantity is the sum of the quantities of the
\* orders linked into it.
C8_TotalIsSum ==
    /\ \A i \in DOMAIN bids :
          bids[i].totalQuantity = SumQty(orders, Fifo(orders, bids[i]))
    /\ \A i \in DOMAIN asks :
          asks[i].totalQuantity = SumQty(orders, Fifo(orders, asks[i]))

\* C9: the pool's free count plus the number of orders linked into the levels
\* is the pool's capacity.
C9_ArenaAccounting ==
    freeCount + SumLen(orders, bids) + SumLen(orders, asks) = Capacity

\* an add filled a resting order to zero while another order stays resting
C9_Witness ==
    /\ lastOp.op = "add"
    /\ \E k \in DOMAIN trades : trades[k].quantity = matchLog[k].restingQty
    /\ freeCount < Capacity

RECURSIVE WalkBack(_, _, _)
WalkBack(ords, o, fuel) ==
    IF o = NULL \/ fuel = 0 THEN <<>>
    ELSE <<o>> \o WalkBack(ords, ords[o].prev, fuel - 1)

Reverse(q) == [i \in 1..Len(q) |-> q[Len(q) + 1 - i]]

\* The orders of one side that are linked, as the levels reach them.
NoEmptyLevel(levels) == \A i \in DOMAIN levels : ~isEmpty(levels[i])

LevelIffOrders(levels, side) ==
    /\ \A i \in DOMAIN levels :
          \A o \in Range(Fifo(orders, levels[i])) :
              orders[o].price = levels[i].price /\ orders[o].side = side
    /\ \A i \in DOMAIN levels : Fifo(orders, levels[i]) # <<>>

\* C11: no empty level is stored: a side book holds a level at a price exactly
\* when an order of that side and price is linked into it.
C11_NoEmptyLevel ==
    /\ NoEmptyLevel(bids) /\ NoEmptyLevel(asks)
    /\ LevelIffOrders(bids, Buy) /\ LevelIffOrders(asks, Sell)
    /\ \A o \in Slots : isAllocated[o] = 1 =>
          IF orders[o].side = Buy
          THEN \E i \in DOMAIN bids : bids[i].price = orders[o].price
                  /\ o \in Range(Fifo(orders, bids[i]))
          ELSE \E i \in DOMAIN asks : asks[i].price = orders[o].price
                  /\ o \in Range(Fifo(orders, asks[i]))

\* a cancel or a fill removed the last order of a level while another level of
\* that side stays
C11_Witness ==
    /\ lastOp.op = "cancel"
    /\ freeList # NULL
    /\ orders[freeList].orderId = lastOp.id
    /\ orders[freeList].side = Buy
    /\ bids # <<>>
    /\ \A i \in DOMAIN bids : bids[i].price # orders[freeList].price

WellFormed(pl) ==
    LET fwd == Fifo(orders, pl)
        bwd == WalkBack(orders, pl.tail, Capacity)
    IN
    /\ (pl.head = NULL) <=> (pl.tail = NULL)
    /\ (pl.head = NULL) <=> (fwd = <<>>)
    /\ pl.head # NULL =>
          /\ orders[pl.head].prev = NULL
          /\ orders[pl.tail].next = NULL
          /\ fwd[Len(fwd)] = pl.tail
          /\ bwd[Len(bwd)] = pl.head
    /\ \A i \in DOMAIN fwd :
          fwd[i] # pl.tail =>
              /\ orders[fwd[i]].next # NULL
              /\ orders[orders[fwd[i]].next].prev = fwd[i]
    /\ bwd = Reverse(fwd)
    /\ \A i, j \in DOMAIN fwd : i # j => fwd[i] # fwd[j]

\* C12: every level's FIFO is a well-formed doubly-linked list: head and tail
\* are null together, head.prev and tail.next are null, x.next.prev = x, and
\* the forward and the backward walk visit the same orders and end.
C12_WellFormedFifo ==
    /\ \A i \in DOMAIN bids : WellFormed(bids[i])
    /\ \A i \in DOMAIN asks : WellFormed(asks[i])

\* the middle order of a level of three was removed
C12_Witness ==
    /\ lastOp.op = "cancel"
    /\ \E i \in DOMAIN bids :
          LET f == Fifo(orders, bids[i]) IN
          /\ Len(f) = 2
          /\ orders[f[1]].sequence + 2 = orders[f[2]].sequence
          /\ freeList # NULL
          /\ orders[freeList].sequence = orders[f[1]].sequence + 1
          /\ orders[freeList].orderId = lastOp.id

\* ---------------------------------------------------- properties of one step
\* The step is a completed addLimitOrder; its order took the slot at the head
\* of the free list.
AddStep == lastOp'.op = "add" /\ ~aborted' /\ sequence_' = sequence_ + 1

CancelStep == lastOp'.op = "cancel" /\ ~aborted' /\ sequence_' = sequence_

\* The add ended in self-match cancellation (a residual > 0 was discarded).
SmpStep == AddStep /\ ledger'[Len(ledger')].discarded > 0

\* The side books as the incoming order of the step sees them.
OwnBefore == IF lastOp'.side = Buy THEN bids ELSE asks
OwnAfter == IF lastOp'.side = Buy THEN bids' ELSE asks'
OppBefore == IF lastOp'.side = Buy THEN asks ELSE bids
OppAfter == IF lastOp'.side = Buy THEN asks' ELSE bids'

CrossesPrice(side, price, levelPrice) ==
    IF side = Buy THEN price >= levelPrice ELSE price <= levelPrice

IsSuffix(q, full) ==
    Len(q) <= Len(full) /\ q = SubSeq(full, Len(full) - Len(q) + 1, Len(full))

\* The quantity the trades of log gave to the resting order in slot o.
RECURSIVE FilledResting(_, _, _)
FilledResting(tr, log, o) ==
    IF tr = <<>> THEN 0
    ELSE (IF Head(log).resting = o THEN Head(tr).quantity ELSE 0)
         + FilledResting(Tail(tr), Tail(log), o)

RECURSIVE SumTrades(_)
SumTrades(tr) ==
    IF tr = <<>> THEN 0 ELSE Head(tr).quantity + SumTrades(Tail(tr))

\* What a step leaves behind when the match loop meets the incoming
\* participant's own order at the head of the opposite best level.
SelfMatchOutcome(withIndex) ==
        /\ ( /\ AddStep
             /\ lastOp'.quantity > 0
             /\ OppBefore # <<>>
             /\ CrossesPrice(lastOp'.side, lastOp'.price,
                             OppBefore[Len(OppBefore)].price)
             /\ orders[OppBefore[Len(OppBefore)].head].participantId
                    = lastOp'.participantId )
           => (SmpStep /\ trades' = <<>> /\ OppAfter = OppBefore)
        /\ SmpStep =>
           /\ OppAfter # <<>>
           /\ LET best == OppAfter[Len(OppAfter)]
                  h == best.head
                  inc == freeList
              IN
              /\ CrossesPrice(lastOp'.side, lastOp'.price, best.price)
              /\ orders'[h].participantId = lastOp'.participantId
              /\ isAllocated[h] = 1 /\ isAllocated'[h] = 1
              /\ [orders'[h] EXCEPT !.prev = NULL]
                    = [orders[h] EXCEPT !.prev = NULL]
              /\ \E i \in DOMAIN OppBefore :
                    /\ OppBefore[i].price = best.price
                    /\ IsSuffix(Fifo(orders', best),
                                Fifo(orders, OppBefore[i]))
              /\ withIndex =>
                    \A id \in DOMAIN orderIndex :
                        orderIndex[id] = h =>
                            id \in DOMAIN orderIndex' /\ orderIndex'[id] = h
              /\ \A k \in DOMAIN matchLog' : matchLog'[k].resting # h
              /\ OwnAfter = OwnBefore
              /\ isAllocated'[inc] = 0
              /\ freeList' = inc
              /\ inc \notin Range(orderIndex')
              /\ inc \notin (LinkedIn(orders', bids')
                             \cup LinkedIn(orders', asks'))

\* C13: when the head of the opposite best level belongs to the incoming
\* order's participant the incoming order is cancelled: no trade for that pair,
\* the resting order keeps its quantity, its place and its index entry, the
\* incoming order is not rested and its slot is released.
C13_SelfMatchPolicy == [][SelfMatchOutcome(TRUE)]_vars

\* Everything of the policy but the index entry of the resting order holds.
SelfMatchPolicyApartFromIndex == [][SelfMatchOutcome(FALSE)]_vars

\* an add was cancelled on meeting its own order at the head of a level that
\* holds another participant's order behind it
C13_Witness ==
    /\ lastOp.op = "add" /\ ~aborted
    /\ ledger[Len(ledger)].discarded > 0
    /\ LET opp == IF lastOp.side = Buy THEN asks ELSE bids IN
       /\ opp # <<>>
       /\ LET f == Fifo(orders, opp[Len(opp)]) IN
          /\ Len(f) >= 2
          /\ orders[f[1]].participantId = lastOp.participantId
          /\ orders[f[2]].participantId # lastOp.participantId

\* C14: when an add ends in self-match cancellation after fills, the fills
\* stay: each trade was emitted, the resting orders are reduced by their
\* fills or removed (no emptied level stays), and only the incoming order's
\* unfilled residual is discarded.
C14_FillsBeforeSelfMatchFinal ==
    [][ (SmpStep /\ trades' # <<>>) =>
        /\ \A k \in DOMAIN trades' : trades'[k].quantity > 0
        /\ \A o \in LinkedIn(orders, OppBefore) :
              LET f == FilledResting(trades', matchLog', o) IN
              IF f = orders[o].quantity
              THEN /\ o \notin LinkedIn(orders', OppAfter)
                   /\ isAllocated'[o] = 0
              ELSE /\ o \in LinkedIn(orders', OppAfter)
                   /\ orders'[o].quantity = orders[o].quantity - f
        /\ LinkedIn(orders', OppAfter) \subseteq LinkedIn(orders, OppBefore)
        /\ NoEmptyLevel(OppAfter)
        /\ OwnAfter = OwnBefore
        /\ ledger'[Len(ledger')].filled = SumTrades(trades')
        /\ ledger'[Len(ledger')].discarded
              = lastOp'.quantity - SumTrades(trades')
      ]_vars

\* an add swept a better level and was then cancelled on meeting its own
\* order at the next level
C14_Witness ==
    /\ lastOp.op = "add" /\ ~aborted
    /\ trades # <<>>
    /\ ledger[Len(ledger)].discarded > 0
    /\ LET opp == IF lastOp.side = Buy THEN asks ELSE bids IN
       /\ opp # <<>>
       /\ trades[1].price # opp[Len(opp)].price

\* The order of the step rests: its slot is the tail of the level at its
\* limit price on its own side and holds quantity qty.
RestsWith(qty) ==
    /\ isAllocated'[freeList] = 1
    /\ orders'[freeList].quantity = qty
    /\ \E i \in DOMAIN OwnAfter :
          /\ OwnAfter[i].price = lastOp'.price
          /\ OwnAfter[i].tail = freeList
          /\ freeList \in Range(Fifo(orders', OwnAfter[i]))

\* The index holds the order of the step under its id.
IndexedUnderId ==
    /\ lastOp'.id \in DOMAIN orderIndex'
    /\ orderIndex'[lastOp'.id] = freeList

\* The id of the step is indexed for its own order or still for the resting
\* order that held it before the step.
IndexedOrShadowed ==
    /\ lastOp'.id \in DOMAIN orderIndex'
    /\ \/ orderIndex'[lastOp'.id] = freeList
       \/ /\ lastOp'.id \in DOMAIN orderIndex
          /\ orderIndex'[lastOp'.id] = orderIndex[lastOp'.id]

\* The order of the step was released: free, not linked, not indexed.
ReleasedUnlinked ==
    /\ isAllocated'[freeList] = 0
    /\ freeList \notin (LinkedIn(orders', bids') \cup LinkedIn(orders', asks'))
    /\ freeList \notin Range(orderIndex')

NoCross ==
    \/ OppBefore = <<>>
    \/ ~CrossesPrice(lastOp'.side, lastOp'.price,
                     OppBefore[Len(OppBefore)].price)

\* C15: an add whose opposite side is empty or whose price does not cross the
\* opposite best emits no trade and rests with its full quantity at its limit
\* price on its own side, indexed under its id.
C15_NewToRested ==
    [][ (AddStep /\ NoCross) =>
        /\ trades' = <<>>
        /\ RestsWith(lastOp'.quantity)
        /\ IndexedUnderId
        /\ OppAfter = OppBefore
      ]_vars

\* What the code does for such an add: a positive quantity rests, and the id
\* is indexed for it unless a resting order already holds the id; quantity 0
\* is released.
NewToRestedPositive ==
    [][ (AddStep /\ NoCross) =>
        /\ trades' = <<>>
        /\ OppAfter = OppBefore
        /\ IF lastOp'.quantity > 0
           THEN RestsWith(lastOp'.quantity) /\ IndexedOrShadowed
           ELSE ReleasedUnlinked /\ OwnAfter = OwnBefore
      ]_vars

\* What is left of the incoming order when matching ends.
Remaining ==
    IF ledger'[Len(ledger')].discarded > 0 THEN 0
    ELSE lastOp'.quantity - SumTrades(trades')

\* C16: every add ends in one terminal state: a remainder > 0 is linked at the
\* tail of the level at its limit price on its own side and indexed under its
\* orderId; otherwise the order is released, neither linked nor indexed.
C16_OneTerminalState ==
    [][ AddStep =>
        IF Remaining > 0
        THEN RestsWith(Remaining) /\ IndexedUnderId
        ELSE ReleasedUnlinked /\ OwnAfter = OwnBefore
      ]_vars

\* The same with the index entry as the code leaves it when the id is taken.
OneTerminalStateShadowed ==
    [][ AddStep =>
        IF Remaining > 0
        THEN RestsWith(Remaining) /\ IndexedOrShadowed
        ELSE ReleasedUnlinked /\ OwnAfter = OwnBefore
      ]_vars

\* The sequence q without the element at position i.
Without(q, i) == SubSeq(q, 1, i - 1) \o SubSeq(q, i + 1, Len(q))

\* What cancelOrder of a resting order leaves behind; wrapping tells whether
\* the level total is read as the 32-bit counter or as the arithmetic
\* difference.
CancelFrame(wrapping) ==
    (CancelStep /\ lastOp'.id \in DOMAIN orderIndex) =>
    LET o == orderIndex[lastOp'.id]
        side == orders[o].side
        own == IF side = Buy THEN bids ELSE asks
        ownAfter == IF side = Buy THEN bids' ELSE asks'
        opp == IF side = Buy THEN asks ELSE bids
        oppAfter == IF side = Buy THEN asks' ELSE bids'
        q == orders[o].quantity
    IN
    /\ trades' = <<>>
    /\ oppAfter = opp
    /\ \A s \in LinkedIn(orders, opp) : orders'[s] = orders[s]
    /\ \A s \in LinkedIn(orders, own) \ {o} :
          orders'[s].quantity = orders[s].quantity
    /\ lastOp'.id \notin DOMAIN orderIndex'
    /\ \A id \in DOMAIN orderIndex \ {lastOp'.id} :
          id \in DOMAIN orderIndex' /\ orderIndex'[id] = orderIndex[id]
    /\ isAllocated[o] = 1 /\ isAllocated'[o] = 0
    /\ freeCount' = freeCount + 1
    /\ \A s \in Slots \ {o} : isAllocated'[s] = isAllocated[s]
    /\ \E i \in DOMAIN own :
          /\ own[i].price = orders[o].price
          /\ o \in Range(Fifo(orders, own[i]))
          /\ IF Fifo(orders, own[i]) = <<o>>
             THEN /\ ownAfter = Without(own, i)
                  /\ own[i].totalQuantity - q = 0
             ELSE /\ Len(ownAfter) = Len(own)
                  /\ \A j \in DOMAIN own \ {i} : ownAfter[j] = own[j]
                  /\ ownAfter[i].price = own[i].price
                  /\ ownAfter[i].totalQuantity =
                        IF wrapping
                        THEN (own[i].totalQuantity - q) % QtyMod
                        ELSE own[i].totalQuantity - q
                  /\ Fifo(orders', ownAfter[i])
                        = SelectSeq(Fifo(orders, own[i]), LAMBDA s : s # o)
          /\ \A j \in DOMAIN ownAfter :
                ownAfter[j].price # orders[o].price =>
                    \E k \in DOMAIN own :
                        /\ own[k].price = ownAfter[j].price
                        /\ Fifo(orders', ownAfter[j]) = Fifo(orders, own[k])

\* C17: cancelOrder of a resting order removes exactly that order: its level's
\* totalQuantity drops by the order's remaining quantity, the other orders of
\* the level keep quantity and order, the level is erased iff it became
\* empty, the index entry is erased, the slot is released, no trade is
\* emitted, and the opposite side and the other levels are unchanged.
C17_CancelFrame == [][CancelFrame(FALSE)]_vars

\* The same frame with the level total as the 32-bit counter holds it.
CancelFrameModulo == [][CancelFrame(TRUE)]_vars

\* C18: cancelOrder for an id that is not indexed is a silent no-op: no error,
\* no trade, and the arena, both side books, the index and the sequence
\* counter are unchanged.
C18_CancelUnknownNoOp ==
    [][ (lastOp'.op = "cancel" /\ lastOp'.id \notin DOMAIN orderIndex) =>
        /\ ~aborted'
        /\ trades' = <<>>
        /\ UNCHANGED <<orders, freeList, freeCount, isAllocated,
                       bids, asks, orderIndex, sequence_, ledger>>
      ]_vars

\* a cancel ran while every order added so far still rests untouched, so its
\* id was not indexed
C18_Witness ==
    /\ lastOp.op = "cancel" /\ ~aborted
    /\ lastOp.id \notin DOMAIN orderIndex
    /\ Len(ledger) >= 2
    /\ \A k \in DOMAIN ledger :
          /\ ledger[k].initial > 0
          /\ ledger[k].filled = 0
          /\ ledger[k].discarded = 0

\* The engine after the step, as the next operation sees it.
SelfAfter ==
    [orders |-> orders', freeList |-> freeList', freeCount |-> freeCount',
     isAllocated |-> isAllocated', bids |-> bids', asks |-> asks',
     orderIndex |-> orderIndex', sequence_ |-> sequence_',
     trades |-> <<>>, matchLog |-> <<>>, discarded |-> 0, cancelled |-> -1,
     aborted |-> FALSE]

\* A side book as a caller can read it: per level the price, the total and
\* the orders in FIFO order.
BookView(ords, levels) ==
    [i \in DOMAIN levels |->
        [price |-> levels[i].price,
         totalQuantity |-> levels[i].totalQuantity,
         fifo |-> LET f == Fifo(ords, levels[i]) IN
                  [k \in DOMAIN f |->
                      [ords[f[k]] EXCEPT !.next = NULL, !.prev = NULL]]]]

\* The index as a caller can read it: per id the order it leads to.
IndexView(ords, index) ==
    [id \in DOMAIN index |->
        [ords[index[id]] EXCEPT !.next = NULL, !.prev = NULL]]

\* cancelOrder of the id just added brings back the state before the add.
CancelRestores ==
    LET m2 == cancelOrder(SelfAfter, lastOp'.id) IN
    /\ ~m2.aborted
    /\ BookView(m2.orders, m2.bids) = BookView(orders, bids)
    /\ BookView(m2.orders, m2.asks) = BookView(orders, asks)
    /\ IndexView(m2.orders, m2.orderIndex) = IndexView(orders, orderIndex)
    /\ m2.freeCount = freeCount

\* C19: an addLimitOrder that rests, followed at once by cancelOrder of its
\* id, returns both side books, the index and the free count to the state
\* before the add.
C19_CancelAfterRest ==
    [][ (AddStep /\ isAllocated'[freeList] = 1) => CancelRestores ]_vars

\* The round trip holds when the add rested without a fill and its id was
\* not held by a resting order.
CancelAfterRestFreshId ==
    [][ ( /\ AddStep
          /\ isAllocated'[freeList] = 1
          /\ trades' = <<>>
          /\ lastOp'.id \notin DOMAIN orderIndex ) => CancelRestores ]_vars

\* The prices of the orders resting on one side.
RestingPrices(side) ==
    {orders[o].price : o \in {s \in Slots : /\ isAllocated[s] = 1
                                            /\ orders[s].side = side}}

\* C20: bestBid is the level at the highest price among the resting buy
\* orders and bestAsk the level at the lowest price among the resting sell
\* orders, and each is null iff its side has no resting order.
C20_BestLevels ==
    /\ (bestBid(Self) = NULL) <=> (RestingPrices(Buy) = {})
    /\ (bestAsk(Self) = NULL) <=> (RestingPrices(Sell) = {})
    /\ bestBid(Self) # NULL =>
          /\ bids[bestBid(Self)].price \in RestingPrices(Buy)
          /\ \A p \in RestingPrices(Buy) : p <= bids[bestBid(Self)].price
          /\ ~isEmpty(bids[bestBid(Self)])
    /\ bestAsk(Self) # NULL =>
          /\ asks[bestAsk(Self)].price \in RestingPrices(Sell)
          /\ \A p \in RestingPrices(Sell) : p >= asks[bestAsk(Self)].price
          /\ ~isEmpty(asks[bestAsk(Self)])

\* the only order of the best ask level was cancelled and the best ask moved
\* to the next level
C20_Witness ==
    /\ lastOp.op = "cancel" /\ ~aborted
    /\ freeList # NULL
    /\ isAllocated[freeList] = 0
    /\ orders[freeList].orderId = lastOp.id
    /\ orders[freeList].side = Sell
    /\ orders[freeList].quantity > 0
    /\ bestAsk(Self) # NULL
    /\ orders[freeList].price < asks[bestAsk(Self)].price

RECURSIVE TradedAt(_, _)
TradedAt(tr, price) ==
    IF tr = <<>> THEN 0
    ELSE (IF Head(tr).price = price THEN Head(tr).quantity ELSE 0)
         + TradedAt(Tail(tr), price)

\* What the fills of one add do to the quantities; wrapping tells whether a
\* level total is read as the 32-bit counter or as the arithmetic difference.
FillAmounts(wrapping) ==
    (AddStep /\ trades' # <<>>) =>
    /\ matchLog'[1].incomingQty = lastOp'.quantity
    /\ \A k \in DOMAIN trades' :
          LET q == trades'[k].quantity
              r == matchLog'[k].resting
          IN
          /\ q = Min(matchLog'[k].incomingQty, matchLog'[k].restingQty)
          /\ q > 0
          /\ matchLog'[k].restingQty = orders[r].quantity
          /\ orders'[r].quantity = orders[r].quantity - q
          /\ IF k < Len(trades')
             THEN matchLog'[k + 1].incomingQty = matchLog'[k].incomingQty - q
             ELSE orders'[freeList].quantity =
                     IF ledger'[Len(ledger')].discarded > 0 THEN 0
                     ELSE matchLog'[k].incomingQty - q
    /\ \A i \in DOMAIN OppBefore :
          LET d == OppBefore[i].totalQuantity
                       - TradedAt(trades', OppBefore[i].price)
              left == IF wrapping THEN d % QtyMod ELSE d
          IN
          IF \E j \in DOMAIN OppAfter : OppAfter[j].price = OppBefore[i].price
          THEN \A j \in DOMAIN OppAfter :
                  OppAfter[j].price = OppBefore[i].price =>
                      OppAfter[j].totalQuantity = left
          ELSE left = 0

\* C22: every trade's quantity is min(incoming remaining, head resting
\* remaining) at the fill and > 0, and both orders' quantities and the
\* level's totalQuantity are decremented by exactly that amount.
C22_FillAmounts == [][FillAmounts(FALSE)]_vars

\* The same with the level total as the 32-bit counter holds it.
FillAmountsModulo == [][FillAmounts(TRUE)]_vars

\* OrderBook::addLimitOrder up to the end of the match loop: the engine when
\* matchBuy / matchSell has returned and the remainder is not yet rested.
MatchedOnly(m, side, price, quantity, id, participantId) ==
    LET order == Allocated(m)
        m0 == allocate(m)
        m1 == [m0 EXCEPT
                 !.orders[order] = init(@, id, price, quantity, m0.sequence_,
                                        side, participantId),
                 !.sequence_ = @ + 1]
    IN
    IF m0.aborted THEN m0
    ELSE IF side = Buy
         THEN IF bestAsk(m1) # NULL /\ price >= m1.asks[bestAsk(m1)].price
              THEN matchBuy(m1, order) ELSE m1
         ELSE IF bestBid(m1) # NULL /\ price <= m1.bids[bestBid(m1)].price
              THEN matchSell(m1, order) ELSE m1

\* C23: trades reach the sink in the order of the fills, all trades of one
\* addLimitOrder are delivered before the remainder is rested and before the
\* call returns, and no trade is emitted outside an addLimitOrder.
C23_TradesInFillOrder ==
    [][ /\ trades' # <<>> => AddStep
        /\ AddStep =>
           LET m == MatchedOnly(Self, lastOp'.side, lastOp'.price,
                                lastOp'.quantity, lastOp'.id,
                                lastOp'.participantId)
           IN
           /\ m.trades = trades'
           /\ freeList \notin (LinkedIn(m.orders, m.bids)
                               \cup LinkedIn(m.orders, m.asks))
           /\ freeList \notin Range(m.orderIndex)
           /\ (IF lastOp'.side = Buy THEN m.bids = bids ELSE m.asks = asks)
           /\ Len(matchLog') = Len(trades')
           /\ \A k \in DOMAIN trades' :
                 /\ matchLog'[k].incoming = freeList
                 /\ matchLog'[k].incomingQty =
                       lastOp'.quantity - SumTrades(SubSeq(trades', 1, k - 1))
                 /\ \A j \in 1..(k - 1) :
                       \/ matchLog'[j].restingPrice # matchLog'[k].restingPrice
                       \/ matchLog'[j].restingSeq < matchLog'[k].restingSeq
      ]_vars

\* an add delivered two trades and then rested its remainder
C23_Witness ==
    /\ lastOp.op = "add" /\ ~aborted
    /\ Len(trades) >= 2
    /\ trades[1] # trades[2]
    /\ ledger[Len(ledger)].discarded = 0
    /\ ledger[Len(ledger)].filled < ledger[Len(ledger)].initial

\* C24: the sequence counter only grows: every addLimitOrder records the
\* current value in the order it acquires and then increments the counter
\* once, whatever becomes of the order; cancelOrder leaves it alone; so an
\* order acquired later has a greater sequence than any acquired before.
C24_SequenceMonotonic ==
    [][ /\ sequence_' >= sequence_
        /\ lastOp'.op = "cancel" => sequence_' = sequence_
        /\ aborted' => sequence_' = sequence_
        /\ (lastOp'.op = "add" /\ ~aborted') =>
              /\ sequence_' = sequence_ + 1
              /\ orders'[freeList].sequence = sequence_
              /\ \A s \in Slots :
                    isAllocated[s] = 1 =>
                        orders[s].sequence < orders'[freeList].sequence
              /\ Len(ledger') = sequence_'
      ]_vars

\* three adds took the sequences 0, 1, 2: one rests, the last one was
\* cancelled by self-match prevention
C24_Witness ==
    /\ lastOp.op = "add" /\ ~aborted
    /\ sequence_ = 3
    /\ ledger[3].discarded > 0
    /\ \E s \in Slots : isAllocated[s] = 1 /\ orders[s].sequence = 1

\* C30: the match loop ends: every iteration that does not exit emits one
\* trade of quantity > 0 that exhausts the incoming order or removes the head
\* resting order, so an add emits at most as many trades as there were
\* opposite resting orders, each against a different resting order.
C30_MatchLoopBound ==
    [][ AddStep =>
        /\ Len(trades') <= Cardinality(LinkedIn(orders, OppBefore))
        /\ \A k \in DOMAIN trades' :
              /\ trades'[k].quantity > 0
              /\ matchLog'[k].resting \in LinkedIn(orders, OppBefore)
              /\ \/ trades'[k].quantity = matchLog'[k].restingQty
                 \/ /\ trades'[k].quantity = matchLog'[k].incomingQty
                    /\ k = Len(trades')
              /\ trades'[k].quantity = matchLog'[k].restingQty =>
                    /\ isAllocated'[matchLog'[k].resting] = 0
                    /\ matchLog'[k].resting \notin LinkedIn(orders', OppAfter)
              /\ \A j \in DOMAIN trades' :
                    j # k => matchLog'[j].resting # matchLog'[k].resting
        /\ Len(trades') < Cardinality(LinkedIn(orders, OppBefore)) =>
              \/ orders'[freeList].quantity = 0
              \/ OppAfter = <<>>
              \/ ~CrossesPrice(lastOp'.side, lastOp'.price,
                               OppAfter[Len(OppAfter)].price)
      ]_vars

\* an add ran the loop once per opposite resting order, removed each of them
\* and left the loop because the opposite side was empty
C30_Witness ==
    /\ lastOp.op = "add" /\ ~aborted
    /\ Len(trades) = 2
    /\ (IF lastOp.side = Buy THEN asks ELSE bids) = <<>>
    /\ ledger[Len(ledger)].filled < ledger[Len(ledger)].initial

\* The heap allocations of a step.  The side books were reserved at
\* construction and do not grow, the orders live in the pool, and the index
\* reserved its buckets; what is left is the node try_emplace allocates when
\* it inserts: an index entry that leads to an order it did not lead to
\* before the step.
HeapAllocations ==
    Cardinality({id \in DOMAIN orderIndex' :
                    \/ id \notin DOMAIN orderIndex
                    \/ orderIndex'[id] # orderIndex[id]})

\* C27: an addLimitOrder that rests performs exactly one heap allocation (the
\* index entry); an addLimitOrder that does not rest, every match step and
\* cancelOrder perform none.
C27_AllocationDiscipline ==
    [][ /\ (AddStep /\ isAllocated'[freeList] = 1) => HeapAllocations = 1
        /\ (AddStep /\ isAllocated'[freeList] = 0) => HeapAllocations = 0
        /\ CancelStep => HeapAllocations = 0
        /\ Len(bids') <= kDefaultMaxPriceLevels
        /\ Len(asks') <= kDefaultMaxPriceLevels
      ]_vars

\* The discipline as the code keeps it: a resting add allocates one index
\* node unless a resting order already holds its id, then none.
AllocationDisciplineFreshId ==
    [][ /\ (AddStep /\ isAllocated'[freeList] = 1) =>
              HeapAllocations = IF lastOp'.id \in DOMAIN orderIndex
                                   /\ lastOp'.id \in DOMAIN orderIndex'
                                   /\ orderIndex'[lastOp'.id]
                                          = orderIndex[lastOp'.id]
                                THEN 0 ELSE 1
        /\ (AddStep /\ isAllocated'[freeList] = 0) => HeapAllocations = 0
        /\ CancelStep => HeapAllocations = 0
        /\ Len(bids') <= kDefaultMaxPriceLevels
        /\ Len(asks') <= kDefaultMaxPriceLevels
      ]_vars

\* The slots on the free list.
FreeSlots == Range(Walk(orders, freeList, Capacity))

\* The free list holds every free slot once and freeCount counts them.
FreeListSound ==
    LET w == Walk(orders, freeList, Capacity) IN
    /\ Len(w) = Cardinality(Range(w))
    /\ Len(w) = freeCount
    /\ (freeList = NULL) <=> (freeCount = 0)
    /\ w # <<>> => orders[w[Len(w)]].next = NULL

\* C25: deallocate of a null handle or of a slot that is already free fails,
\* in every pool state, and leaves the free list and freeCount as they were.
C25_DoubleReleaseRejected ==
    [][ ( /\ lastOp'.op = "deallocate"
          /\ \/ lastOp'.order = NULL
             \/ lastOp'.order \in FreeSlots )
        => /\ aborted'
           /\ UNCHANGED <<orders, freeList, freeCount>>
           /\ FreeListSound'
      ]_vars

\* C26: allocate hands out a free slot with next and prev null and takes one
\* off freeCount; the slots handed out and not yet given back are pairwise
\* distinct (none is on the free list) and freeCount is the capacity minus
\* their number.
C26_AllocateHandsOutFreeSlot ==
    [][ /\ (lastOp'.op = "allocate" /\ ~aborted') =>
              /\ freeList \in FreeSlots
              /\ isAllocated[freeList] = 0
              /\ isAllocated' = [isAllocated EXCEPT ![freeList] = 1]
              /\ orders'[freeList].next = NULL
              /\ orders'[freeList].prev = NULL
              /\ freeCount' = freeCount - 1
              /\ FreeSlots' = FreeSlots \ {freeList}
        /\ (lastOp'.op = "deallocate" /\ ~aborted') =>
              /\ isAllocated[lastOp'.order] = 1
              /\ FreeSlots' = FreeSlots \cup {lastOp'.order}
              /\ freeCount' = freeCount + 1
        /\ FreeListSound'
        /\ FreeSlots' = {s \in Slots : isAllocated'[s] = 0}
        /\ freeCount' = Capacity - Cardinality({s \in Slots : isAllocated'[s] = 1})
      ]_vars

\* every slot is handed out, after one of them went back to the pool and was
\* handed out again
C26_Witness ==
    /\ lastOp.op = "allocate" /\ ~aborted
    /\ freeCount = 0
    /\ sequence_ = 0
    /\ \A s \in Slots : isAllocated[s] = 1
    /\ \E s \in Slots : orders[s].orderId # orders[1].orderId

\* C29: an add issued when the arena has no free slot fails at its first
\* step, also when the order would have matched and freed a slot; no trade
\* is emitted and no side book, index, pool or sequence state is changed.
C29_ExhaustionAtFirstStep ==
    [][ /\ (lastOp'.op = "add" /\ freeCount = 0) =>
              LET m == addLimitOrder(Self, lastOp'.side, lastOp'.price,
                                     lastOp'.quantity, lastOp'.id,
                                     lastOp'.participantId)
              IN
              /\ m.aborted
              /\ m.trades = <<>>
              /\ m.orders = orders
              /\ m.freeList = freeList
              /\ m.freeCount = freeCount
              /\ m.isAllocated = isAllocated
              /\ m.bids = bids
              /\ m.asks = asks
              /\ m.orderIndex = orderIndex
              /\ m.sequence_ = sequence_
              /\ aborted'
              /\ UNCHANGED <<orders, freeList, freeCount, isAllocated,
                             bids, asks, orderIndex, sequence_>>
        /\ aborted' => (lastOp'.op = "add" /\ freeCount = 0)
      ]_vars

\* a buy that the best ask would have filled completely failed on the full
\* arena
C29_Witness ==
    /\ aborted
    /\ lastOp.op = "add"
    /\ lastOp.side = Buy
    /\ freeCount = 0
    /\ asks # <<>>
    /\ lastOp.price >= asks[Len(asks)].price
    /\ LET resting == orders[asks[Len(asks)].head] IN
       /\ resting.participantId # lastOp.participantId
       /\ lastOp.quantity > 0
       /\ lastOp.quantity <= resting.quantity

\* The prices of a side book.
LevelPricesOf(levels) == {levels[i].price : i \in DOMAIN levels}

\* What findOrCreate does to the side book levels for the price of the step.
FindOrCreateOutcome(levels, levelsAfter) ==
    IF lastOp'.price \in LevelPricesOf(levels)
    THEN ~aborted' /\ levelsAfter = levels
    ELSE IF Len(levels) >= kDefaultMaxPriceLevels
         THEN aborted' /\ levelsAfter = levels
         ELSE /\ ~aborted'
              /\ Len(levelsAfter) = Len(levels) + 1
              /\ LevelPricesOf(levelsAfter)
                    = LevelPricesOf(levels) \cup {lastOp'.price}

\* C28: a side book never holds more levels than the capacity reserved at
\* construction, and creating a level on a side that already holds that many
\* fails instead of growing the vector.
C28_SideBooksNeverGrow ==
    [][ /\ Len(bids') <= kDefaultMaxPriceLevels
        /\ Len(asks') <= kDefaultMaxPriceLevels
        /\ (lastOp'.op = "findOrCreate" /\ lastOp'.side = Buy) =>
              FindOrCreateOutcome(bids, bids') /\ asks' = asks
        /\ (lastOp'.op = "findOrCreate" /\ lastOp'.side = Sell) =>
              FindOrCreateOutcome(asks, asks') /\ bids' = bids
      ]_vars

\* a new bid level was asked for when bids_ held as many levels as reserved
C28_Witness ==
    /\ aborted
    /\ lastOp.op = "findOrCreate"
    /\ lastOp.side = Buy
    /\ Len(bids) = kDefaultMaxPriceLevels
    /\ lastOp.price \notin LevelPricesOf(bids)

\* What an add leaves of the opposite resting orders: one filled to zero is
\* unlinked and released, any other stays linked and allocated with its
\* quantity less the fill, and one filled in part is the head of the best
\* level; withIndex adds that it is indexed under its id and that cancelOrder
\* of that id removes it.
RestingAfterFills(withIndex) ==
    AddStep =>
    \A o \in LinkedIn(orders, OppBefore) :
       LET f == FilledResting(trades', matchLog', o) IN
       IF f = orders[o].quantity
       THEN /\ o \notin LinkedIn(orders', OppAfter)
            /\ isAllocated'[o] = 0
            /\ o \notin Range(orderIndex')
       ELSE /\ f < orders[o].quantity
            /\ o \in LinkedIn(orders', OppAfter)
            /\ isAllocated'[o] = 1
            /\ orders'[o].quantity = orders[o].quantity - f
            /\ f > 0 =>
                  /\ OppAfter[Len(OppAfter)].head = o
                  /\ withIndex =>
                        LET id == orders[o].orderId
                            m == cancelOrder(SelfAfter, id)
                        IN
                        /\ id \in DOMAIN orderIndex'
                        /\ orderIndex'[id] = o
                        /\ m.isAllocated[o] = 0
                        /\ o \notin (LinkedIn(m.orders, m.bids)
                                     \cup LinkedIn(m.orders, m.asks))

\* C31: a resting order is unlinked, un-indexed and released only when its
\* quantity reaches zero; one filled in part keeps the head of its level,
\* stays indexed with the reduced quantity and can be cancelled.
C31_PartialFillStays == [][RestingAfterFills(TRUE)]_vars

\* Everything of that but the index entry holds.
PartialFillStaysApartFromIndex == [][RestingAfterFills(FALSE)]_vars

\* C32: between operations no OrderIndex entry, no level head or tail and no
\* next/prev link of a linked order points to a slot of the free list; every
\* slot a step releases is by then unlinked and absent from the index.
C32_NoReleasedSlotReferenced ==
    LET linked == LinkedIn(orders, bids) \cup LinkedIn(orders, asks)
        levels == bids \o asks
    IN
    /\ Range(orderIndex) \cap FreeSlots = {}
    /\ \A i \in DOMAIN levels :
          /\ levels[i].head \notin FreeSlots
          /\ levels[i].tail \notin FreeSlots
    /\ \A o \in linked :
          /\ o \notin FreeSlots
          /\ orders[o].next \notin FreeSlots
          /\ orders[o].prev \notin FreeSlots
    /\ \A o \in Slots : isAllocated[o] = 0 <=> o \in FreeSlots

\* A fully matched incoming order went back to the free list while two orders
\* stay linked at one level and one of them is indexed.
C32_Witness ==
    /\ lastOp.op = "add"
    /\ trades # <<>>
    /\ \E o \in FreeSlots :
          orders[o].sequence = sequence_ - 1 /\ orders[o].quantity = 0
    /\ \E o \in LinkedIn(orders, bids) \cup LinkedIn(orders, asks) :
          orders[o].next # NULL
    /\ orderIndex # << >>

\* C33: after cancelOrder(id) no order with that id rests in any level, also
\* when the id was submitted again while an order with it was resting.
C33_CancelLeavesNoOrderOfId ==
    [][CancelStep =>
         \A o \in LinkedIn(orders', bids') \cup LinkedIn(orders', asks') :
            orders'[o].orderId # lastOp'.id]_vars

\* What cancelOrder(id) does achieve: the id leaves the index, and the order
\* the index held under it leaves its level and the arena.
CancelRemovesIndexed ==
    [][CancelStep =>
         /\ lastOp'.id \notin DOMAIN orderIndex'
         /\ lastOp'.id \in DOMAIN orderIndex =>
               LET o == orderIndex[lastOp'.id] IN
               /\ o \notin LinkedIn(orders', bids') \cup LinkedIn(orders', asks')
               /\ isAllocated'[o] = 0]_vars

\* C34: an add with quantity 0 emits no trade, discards nothing, creates no
\* level and no index entry, returns its slot, and changes nothing but the
\* sequence counter (and the fields of the free slot it used), whether or not
\* its price crosses the opposite best.
C34_ZeroQuantityAdd ==
    [][(AddStep /\ lastOp'.quantity = 0) =>
         /\ trades' = <<>>
         /\ matchLog' = <<>>
         /\ ledger'[Len(ledger')] = [initial |-> 0, filled |-> 0, discarded |-> 0]
         /\ bids' = bids
         /\ asks' = asks
         /\ orderIndex' = orderIndex
         /\ freeList' = freeList
         /\ freeCount' = freeCount
         /\ isAllocated' = isAllocated
         /\ \A o \in Slots \ {freeList} : orders'[o] = orders[o]
         /\ orders'[freeList].next = orders[freeList].next
         /\ orders'[freeList].quantity = 0]_vars

\* A buy with quantity 0 whose price crosses the best ask, the head of which
\* belongs to the same participant, was added.
C34_Witness ==
    /\ lastOp.op = "add"
    /\ ~aborted
    /\ lastOp.quantity = 0
    /\ lastOp.side = Buy
    /\ asks # <<>>
    /\ lastOp.price >= asks[Len(asks)].price
    /\ orders[asks[Len(asks)].head].participantId = lastOp.participantId
    /\ orders[freeList].sequence = sequence_ - 1

\* C35: no trade executes at a price worse than a leg's limit: its price is
\* at most the buy order's limit price and at least the sell order's, for the
\* incoming and for the resting leg.
C35_NeverWorseThanLimit ==
    \A k \in DOMAIN trades :
       LET incomingBuys == lastOp.side = Buy
           buyLimit == IF incomingBuys THEN matchLog[k].incomingPrice
                                       ELSE matchLog[k].restingPrice
           sellLimit == IF incomingBuys THEN matchLog[k].restingPrice
                                        ELSE matchLog[k].incomingPrice
       IN /\ matchLog[k].incomingPrice = lastOp.price
          /\ trades[k].price <= buyLimit
          /\ trades[k].price >= sellLimit

\* A sell swept two bid levels, the first above its limit price.
C35_Witness ==
    /\ lastOp.op = "add"
    /\ lastOp.side = Sell
    /\ Len(trades) = 2
    /\ trades[1].price > lastOp.price
    /\ trades[2].price = lastOp.price

\* The engine m after addLimitOrder has allocated and initialised the
\* incoming order, before it matches.
Incoming(m, side, price, quantity, id, participantId) ==
    [allocate(m) EXCEPT
       !.orders[Allocated(m)] = init(@, id, price, quantity, m.sequence_,
                                     side, participantId),
       !.sequence_ = @ + 1]

\* C36: in every reachable book and for every incoming order the match loop
\* that pops each emptied level at once and the one that truncates the side
\* book once at its exit emit the same trades and leave the same side books,
\* orders, index and arena.
C36_MatchLoopsEquivalent ==
    freeList # NULL =>
    \A side \in {Buy, Sell}, price \in Prices, quantity \in Quantities,
       id \in OrderIds, participantId \in Participants :
       LET m == Incoming(Self, side, price, quantity, id, participantId)
           order == freeList
       IN IF side = Buy THEN matchBuy(m, order) = matchBuyBatch(m, order)
                        ELSE matchSell(m, order) = matchSellBatch(m, order)

\* A book with two ask levels in which some incoming buy empties the best
\* level in one trade, then meets an own order at the head of the next level
\* and is discarded.
C36_Witness ==
    /\ freeList # NULL
    /\ Len(asks) = 2
    /\ \E price \in Prices, quantity \in Quantities,
          id \in OrderIds, participantId \in Participants :
          LET m == matchBuyBatch(Incoming(Self, Buy, price, quantity,
                                          id, participantId), freeList)
          IN Len(m.asks) = 1 /\ Len(m.trades) = 1 /\ m.discarded > 0

\* The mirror image of sides, prices, orders, levels, trades and engines:
\* Buy and Sell exchanged and every price p replaced by MirrorAxis - p.
MirrorAxis == MaxPrice + 1

MirrorSide(side) == IF side = Buy THEN Sell ELSE Buy

MirrorOrder(o) ==
    [o EXCEPT !.side = MirrorSide(@), !.price = MirrorAxis - @]

MirrorLevels(levels) ==
    [i \in DOMAIN levels |-> [levels[i] EXCEPT !.price = MirrorAxis - @]]

MirrorTrades(tr) ==
    [k \in DOMAIN tr |->
        [buyOrderId |-> tr[k].sellOrderId, sellOrderId |-> tr[k].buyOrderId,
         price |-> MirrorAxis - tr[k].price, quantity |-> tr[k].quantity]]

Mirror(m) ==
    [m EXCEPT
       !.orders = [o \in Slots |-> IF m.isAllocated[o] = 1
                                   THEN MirrorOrder(m.orders[o])
                                   ELSE m.orders[o]],
       !.bids = MirrorLevels(m.asks),
       !.asks = MirrorLevels(m.bids),
       !.trades = MirrorTrades(m.trades)]

\* Two engines that no operation can tell apart: all of their state is equal
\* but the fields of free slots other than the free-list link.
SameEngine(a, b) ==
    /\ a.bids = b.bids
    /\ a.asks = b.asks
    /\ a.orderIndex = b.orderIndex
    /\ a.freeList = b.freeList
    /\ a.freeCount = b.freeCount
    /\ a.isAllocated = b.isAllocated
    /\ a.sequence_ = b.sequence_
    /\ a.trades = b.trades
    /\ a.aborted = b.aborted
    /\ \A o \in Slots :
          IF a.isAllocated[o] = 1 THEN a.orders[o] = b.orders[o]
          ELSE a.orders[o].next = b.orders[o].next

\* C37: buy and sell handling are mirror images. In every reachable engine
\* each operation the engine can take next commutes with the mirror: the mirrored operation on the
\* mirrored engine emits the mirrored trades (ids exchanged, prices mirrored,
\* quantities equal) and leaves the mirror of the engine the operation
\* leaves, with bestBid and bestAsk exchanged; so a mirrored replay of any
\* sequence of operations ends in the mirrored book.
C37_MirrorSymmetry ==
    /\ (sequence_ < MaxSeq /\ freeList # NULL) =>
       \A side \in {Buy, Sell}, price \in Prices, quantity \in Quantities,
          id \in OrderIds, participantId \in Participants :
          LET there == addLimitOrder(Mirror(Self), MirrorSide(side),
                                     MirrorAxis - price, quantity, id,
                                     participantId)
              here == addLimitOrder(Self, side, price, quantity, id,
                                    participantId)
          IN /\ SameEngine(there, Mirror(here))
             /\ there.discarded = here.discarded
             /\ (bestBid(there) = NULL) = (bestAsk(here) = NULL)
             /\ (bestAsk(there) = NULL) = (bestBid(here) = NULL)
    /\ \A orderId \in OrderIds :
          SameEngine(cancelOrder(Mirror(Self), orderId),
                     Mirror(cancelOrder(Self, orderId)))

\* A sell traded with the best bid and its remainder rests above the bid
\* that is left, so that both side books and the trade have a mirror image.
C37_Witness ==
    /\ lastOp.op = "add"
    /\ lastOp.side = Sell
    /\ trades # <<>>
    /\ asks # <<>>
    /\ bids # <<>>

\* The total of the level at price among levels, 0 when there is none.
TotalAt(levels, price) ==
    LET S == {i \in DOMAIN levels : levels[i].price = price} IN
    IF S = {} THEN 0 ELSE levels[CHOOSE i \in S : TRUE].totalQuantity

\* C38: a level's totalQuantity never wraps: a resting add raises it by the
\* order's quantity without passing the counter's range, and neither the
\* fills at a level nor a cancel subtract more than the total holds.
C38_TotalNeverWraps ==
    [][/\ (AddStep /\ freeList \in LinkedIn(orders', OwnAfter)) =>
            /\ TotalAt(OwnBefore, lastOp'.price) + orders'[freeList].quantity
                  < QtyMod
            /\ TotalAt(OwnAfter, lastOp'.price)
                  = TotalAt(OwnBefore, lastOp'.price) + orders'[freeList].quantity
       /\ AddStep =>
            \A i \in DOMAIN OppBefore :
               TradedAt(trades', OppBefore[i].price) <= OppBefore[i].totalQuantity
       /\ (CancelStep /\ lastOp'.id \in DOMAIN orderIndex) =>
            LET o == orderIndex[lastOp'.id] IN
            orders[o].quantity
               <= TotalAt(IF orders[o].side = Buy THEN bids ELSE asks,
                          orders[o].price)]_vars

\* C39: while an order rests its orderId, side, price, participantId and
\* sequence never change and its quantity never grows and stays > 0; the
\* quantity changes only by the fills of an incoming order of the opposite
\* side and of another participant; the order leaves the book only when those
\* fills take its whole quantity or by cancelOrder of its id.
C39_RestingOrderLife ==
    [][\A o \in Linked :
          LET before == orders[o]
              after == orders'[o]
              filled == FilledResting(trades', matchLog', o)
              byFill == /\ AddStep
                        /\ lastOp'.side # before.side
                        /\ lastOp'.participantId # before.participantId
                        /\ filled > 0
          IN
          /\ before.quantity > 0
          /\ IF o \in LinkedIn(orders', bids') \cup LinkedIn(orders', asks')
             THEN /\ after.orderId = before.orderId
                  /\ after.side = before.side
                  /\ after.price = before.price
                  /\ after.participantId = before.participantId
                  /\ after.sequence = before.sequence
                  /\ after.quantity <= before.quantity
                  /\ after.quantity > 0
                  /\ after.quantity < before.quantity =>
                        byFill /\ after.quantity = before.quantity - filled
             ELSE \/ byFill /\ filled = before.quantity
                  \/ /\ CancelStep
                     /\ lastOp'.id = before.orderId
                     /\ before.orderId \in DOMAIN orderIndex
                     /\ orderIndex[before.orderId] = o]_vars

\* An add filled part of a resting order, which rests on with what is left.
C39_Witness ==
    /\ lastOp.op = "add"
    /\ trades # <<>>
    /\ LET o == matchLog[Len(matchLog)].resting IN
       /\ o \in Linked
       /\ orders[o].quantity > 0
       /\ orders[o].quantity < matchLog[Len(matchLog)].restingQty
       /\ orders[o].sequence = matchLog[Len(matchLog)].restingSeq

\* The slots that n successive calls of allocate return from the pool m.
RECURSIVE Allocations(_, _)
Allocations(m, n) ==
    IF n = 0 THEN <<>>
    ELSE <<Allocated(m)>> \o Allocations(allocate(m), n - 1)

\* C40: the free list is a stack. A deallocate puts its slot on top of the
\* slots that were free, an allocate returns the top and leaves the rest, and
\* in every pool state the next allocations return the free slots from the
\* most recently released one down; so an allocate that follows a deallocate
\* returns the slot just released.
C40_FreeListIsLifo ==
    [][LET free == Walk(orders, freeList, Capacity)
           freeAfter == Walk(orders', freeList', Capacity)
       IN
       /\ (lastOp'.op = "deallocate" /\ ~aborted') =>
             freeAfter = <<lastOp'.order>> \o free
       /\ (lastOp'.op = "allocate" /\ ~aborted') =>
             /\ free # <<>>
             /\ isAllocated' = [isAllocated EXCEPT ![Head(free)] = 1]
             /\ freeAfter = Tail(free)
             /\ (lastOp.op = "deallocate" /\ ~aborted) => Head(free) = lastOp.order
       /\ Allocations(SelfAfter, Len(freeAfter)) = freeAfter]_vars

\* All three slots were handed out and then released in the order 1, 2, 3,
\* so that the free list holds them in the order 3, 2, 1.
C40_Witness ==
    /\ lastOp.op = "deallocate"
    /\ ~aborted
    /\ lastOp.order = Capacity
    /\ Walk(orders, freeList, Capacity) = [k \in 1..Capacity |-> Capacity + 1 - k]
    /\ \A s \in Slots : orders[s].orderId # 0

====
